---- MODULE Spec2Model ----
(***************************************************************************)
(* A model of warehouse_route_optimizer.py: the daily batch script that    *)
(* downloads four CSV tables, summarises them, solves the facility         *)
(* selection program, aggregates slotting counts, writes and uploads the   *)
(* JSON report, and appends the "advanced intelligence" blocks (schema     *)
(* fingerprints and drift, co-pick rules, slot suggestions, automation     *)
(* score).  One run of the script is a sequence of actions, one per        *)
(* numbered section of the script; the remote report file persists from    *)
(* one run to the next.                                                    *)
(*                                                                         *)
(* Numbers the script rounds with round(x, 3) are kept as integers in      *)
(* thousandths (0.533 is 533).  Ratios are kept exact as integer pairs.    *)
(***************************************************************************)
EXTENDS Integers, Sequences, FiniteSets, TLC

VARIABLES
    pc,             \* the section of the script about to execute
    run,            \* the number of this invocation of the script
    env,            \* how the outside world answers during this run
    picking_df,     \* the four downloaded tables
    product_df,
    storage_df,
    support_df,
    summary,        \* the summary dict
    distances,      \* the random weights drawn in section 5
    output_json,    \* the local file warehouse_route_summary.json
    drive_doc,      \* the remote file RESULT_JSON_FILE_ID on Drive
    adv,            \* the values section 10 has computed so far
    persisted,      \* history: the schema block the last 10.6 upload stored
    raw_picking_df  \* history: the picking table as it was downloaded

vars == <<pc, run, env, picking_df, product_df, storage_df, support_df,
          summary, distances, output_json, drive_doc, adv, persisted,
          raw_picking_df>>

----------------------------------------------------------------------------
(* Bounds of the model.                                                    *)

MaxWaves == 23
MaxOtherWaves == 3
MaxBigFull == 7
MaxBigHalf == 2
MaxBigOther == 2
MaxRuns == 2
MaxStorageRows == 11
MaxFullCostRows == 3
MaxPerCategory == 2
MaxNullWaves == 7
MaxNullOther == 2
MaxNullRows == 2

----------------------------------------------------------------------------
(* Python values.                                                          *)

PyNone == "None"
PyTrue == "True"
PyFalse == "False"

PyBool(b) == IF b THEN PyTrue ELSE PyFalse

\* Python truthiness of None / True / False.
Truthy(v) == v = PyTrue

Min(a, b) == IF a <= b THEN a ELSE b

\* Op(v), with v evaluated once and in full however often Op reads it.
With(v, Op(_)) == CHOOSE r \in {Op(x) : x \in {y \in {v} : y = y}} : TRUE

\* A cell of a table: a null, an integer or a string.
Null == [k |-> "null", n |-> 0, s |-> ""]
I(n) == [k |-> "int", n |-> n, s |-> ""]
S(s) == [k |-> "str", n |-> 0, s |-> s]

Digits == <<"0", "1", "2", "3", "4", "5", "6", "7", "8", "9">>

\* str(n) of a non-negative integer.
RECURSIVE IntStr(_)
IntStr(n) ==
    IF n < 10 THEN Digits[n + 1]
    ELSE IntStr(n \div 10) \o Digits[(n % 10) + 1]

\* str(v) of a cell value, as astype(str) computes it.
PyStr(c) ==
    IF c.k = "str" THEN c.s
    ELSE IF c.k = "int" THEN IntStr(c.n)
    ELSE "nan"

\* Every string the modelled tables hold as a SKU or a category, in the order
\* Python compares strings (code point order): sorted() follows it.
StrUniverse ==
    <<"0", "A", "B", "C", "S01", "S02", "S03", "S04", "S05", "S06",
      "S07", "S08", "S09", "S10", "S11", "S12", "X", "Y", "Z", "nan">>

StrRank(s) == CHOOSE i \in 1..Len(StrUniverse) : StrUniverse[i] = s

----------------------------------------------------------------------------
(* Tables (pandas DataFrames): named, typed columns and rows of cells.     *)

\* pd.DataFrame(): what read_drive_csv returns when the download fails.
EmptyDF == [columns |-> <<>>, rows |-> <<>>]

\* df.empty
IsEmpty(df) == Len(df.rows) = 0 \/ Len(df.columns) = 0

\* c in df.columns
HasCol(df, c) == \E i \in 1..Len(df.columns) : df.columns[i].name = c

ColIndex(df, c) == CHOOSE i \in 1..Len(df.columns) : df.columns[i].name = c

\* df[c] as the sequence of its cells.
Col(df, c) ==
    With(ColIndex(df, c), LAMBDA i : [r \in 1..Len(df.rows) |-> df.rows[r][i]])

\* df.fillna(0, inplace=True) on a non-empty table.
fillna(df) ==
    IF IsEmpty(df) THEN df
    ELSE [df EXCEPT !.rows =
            [r \in 1..Len(df.rows) |->
                [i \in 1..Len(df.rows[r]) |->
                    IF df.rows[r][i].k = "null" THEN I(0) ELSE df.rows[r][i]]]]

\* The first candidate that names a column, else None.
RECURSIVE safe_col(_, _)
safe_col(df, candidates) ==
    IF candidates = <<>> THEN PyNone
    ELSE IF HasCol(df, Head(candidates)) THEN Head(candidates)
    ELSE safe_col(df, Tail(candidates))

----------------------------------------------------------------------------
(* Section 10.3: co-pick associations.                                     *)

\* picking_df[[wave_col, sku_col]].dropna(): the (wave, sku) cells of the
\* rows in which neither is null, in row order.
WaveSkuRows(df, wave_col, sku_col) ==
    With(<<ColIndex(df, wave_col), ColIndex(df, sku_col)>>, LAMBDA ix :
        SelectSeq([r \in 1..Len(df.rows) |-> <<df.rows[r][ix[1]], df.rows[r][ix[2]]>>],
                  LAMBDA p : p[1].k # "null" /\ p[2].k # "null"))

\* groupby sorts its group keys; the wave identifiers of the modelled tables
\* are integers, ordered by value.
SortKeys(keys) ==
    With([a \in keys |-> Cardinality({b \in keys : b.n < a.n})], LAMBDA rank :
        [i \in 1..Cardinality(keys) |-> CHOOSE a \in keys : rank[a] = i - 1])

\* .groupby(wave_col)[sku_col].apply(lambda s: set(s.astype(str))): one set
\* of SKU strings per wave, in group-key order.
Baskets(df, wave_col, sku_col) ==
    With(WaveSkuRows(df, wave_col, sku_col), LAMBDA rws :
        With(SortKeys({rws[i][1] : i \in 1..Len(rws)}), LAMBDA keys :
            [g \in 1..Len(keys) |->
                {PyStr(rws[i][2]) : i \in {j \in 1..Len(rws) : rws[j][1] = keys[g]}}]))

\* sorted(items) of a set of SKU strings.
sorted_items(items) ==
    With([a \in items |-> Cardinality({b \in items : StrRank(b) < StrRank(a)})],
         LAMBDA rank :
            [i \in 1..Cardinality(items) |-> CHOOSE a \in items : rank[a] = i - 1])

\* The baskets holding every SKU of the set.
Holding(baskets, skus) == {g \in 1..Len(baskets) : skus \subseteq baskets[g]}

\* item_ct after the loop "for items in baskets: for a in items:
\* item_ct[a] += 1": each SKU with the number of baskets holding it.
item_ct(baskets) ==
    [a \in UNION {baskets[g] : g \in 1..Len(baskets)} |->
        Cardinality(Holding(baskets, {a}))]

\* pair_ct after the loop "for a, b in combinations(sorted(items), 2):
\* pair_ct[(a, b)] += 1": each pair that combinations() yields for some
\* basket, its smaller SKU first, with the number of baskets holding both.
pair_ct(baskets) ==
    With(UNION {baskets[g] : g \in 1..Len(baskets)}, LAMBDA skus :
        With({p \in skus \X skus :
                StrRank(p[1]) < StrRank(p[2]) /\ Holding(baskets, {p[1], p[2]}) # {}},
             LAMBDA keys :
                [p \in keys |-> Cardinality(Holding(baskets, {p[1], p[2]}))]))

\* pair_ct.items() runs in insertion order: by the first basket holding the
\* pair, and within a basket in the order combinations() yields, which is
\* the order of the sorted SKUs.
PairBefore(first, q, p) ==
    \/ first[q] < first[p]
    \/ /\ first[q] = first[p]
       /\ \/ StrRank(q[1]) < StrRank(p[1])
          \/ q[1] = p[1] /\ StrRank(q[2]) < StrRank(p[2])

PairOrder(baskets, keys) ==
    With([p \in keys |->
            CHOOSE g \in Holding(baskets, {p[1], p[2]}) :
                \A h \in Holding(baskets, {p[1], p[2]}) : g <= h],
         LAMBDA first :
            With([p \in keys |-> Cardinality({q \in keys : PairBefore(first, q, p)})],
                 LAMBDA rank :
                    [i \in 1..Cardinality(keys) |-> CHOOSE p \in keys : rank[p] = i - 1]))

\* round(num / den, 3) in thousandths, for num, den >= 0: Python rounds the
\* double to the nearest thousandth, ties to even.  A ratio of the modelled
\* counts can sit on a tie only when its denominator is 16, and then the
\* double holds it exactly.
Round3(num, den) ==
    With(<<(1000 * num) \div den, (1000 * num) % den>>, LAMBDA qr :
        IF 2 * qr[2] < den THEN qr[1]
        ELSE IF 2 * qr[2] > den THEN qr[1] + 1
        ELSE IF qr[1] % 2 = 0 THEN qr[1] ELSE qr[1] + 1)

\* supp_ab = cnt / n, as the exact ratio <<num, den>>.
supp_ab(cnt, n) == <<cnt, n>>

\* A confidence taken over the consequent's count: not what the script
\* computes, kept to show the properties below tell the two apart.
conf_a_b_swapped(cnt, ia, ib) == <<cnt, ib>>

\* conf_a_b = cnt / item_ct[a]
conf_a_b(cnt, ia, ib) == <<cnt, ia>>

\* lift = supp_ab / (supp_a * supp_b + 1e-9), which is
\* cnt*n / (ia*ib + 1e-9*n*n): the ratio cnt*n / (ia*ib) lowered by less than
\* one part in 10^6 for the table sizes modelled.  lift > 1.1 is therefore
\* 10*cnt*n > 11*ia*ib (both sides are integers and 11e-9*n*n < 1), and
\* round(lift, 3) is the nearest thousandth of cnt*n / (ia*ib) with a tie
\* going down.
lift_ratio(cnt, n, ia, ib) == <<cnt * n, ia * ib>>

lift_round3(cnt, n, ia, ib) ==
    With(lift_ratio(cnt, n, ia, ib), LAMBDA l :
        IF 2 * ((1000 * l[1]) % l[2]) > l[2]
        THEN ((1000 * l[1]) \div l[2]) + 1
        ELSE (1000 * l[1]) \div l[2])

\* Two looser filters, cnt >= 5 and lift > 1.0: not what the script tests,
\* kept to show the properties below tell them apart from its filter.
ClearsThresholds_ge5(cnt, n, ia, ib) ==
    /\ cnt >= 5
    /\ 20 * conf_a_b(cnt, ia, ib)[1] > conf_a_b(cnt, ia, ib)[2]
    /\ 10 * lift_ratio(cnt, n, ia, ib)[1] > 11 * lift_ratio(cnt, n, ia, ib)[2]
ClearsThresholds_lift1(cnt, n, ia, ib) ==
    /\ cnt > 5
    /\ 20 * conf_a_b(cnt, ia, ib)[1] > conf_a_b(cnt, ia, ib)[2]
    /\ lift_ratio(cnt, n, ia, ib)[1] > lift_ratio(cnt, n, ia, ib)[2]

\* cnt > 5 and conf_a_b > 0.05 and lift > 1.1
ClearsThresholds(cnt, n, ia, ib) ==
    /\ cnt > 5
    /\ 20 * conf_a_b(cnt, ia, ib)[1] > conf_a_b(cnt, ia, ib)[2]
    /\ 10 * lift_ratio(cnt, n, ia, ib)[1] > 11 * lift_ratio(cnt, n, ia, ib)[2]

\* The record appended to rules_tmp for the pair (a, b).
RuleRecord(a, b, cnt, n, ia, ib) ==
    [antecedent |-> a,
     consequent |-> b,
     support    |-> Round3(supp_ab(cnt, n)[1], supp_ab(cnt, n)[2]),
     confidence |-> Round3(conf_a_b(cnt, ia, ib)[1], conf_a_b(cnt, ia, ib)[2]),
     lift       |-> lift_round3(cnt, n, ia, ib),
     count      |-> cnt]

\* The loop "for (a, b), cnt in pair_ct.items()": the records of the pairs
\* that clear the thresholds, in insertion order.
rules_tmp(pairs, n, ict, pct) ==
    With(SelectSeq(pairs, LAMBDA p : ClearsThresholds(pct[p], n, ict[p[1]], ict[p[2]])),
         LAMBDA kept :
            [i \in 1..Len(kept) |->
                RuleRecord(kept[i][1], kept[i][2], pct[kept[i]], n,
                           ict[kept[i][1]], ict[kept[i][2]])])

\* The sort key (r["lift"], r["count"]) compared as Python compares tuples.
KeyGreater(r, t) ==
    \/ r.lift > t.lift
    \/ r.lift = t.lift /\ r.count > t.count

\* sorted(rules_tmp, key=..., reverse=True): descending by key, and stable,
\* so records with equal keys keep their order.  The record at position i
\* moves behind the records with a greater key and the earlier records with
\* an equal key.
sorted_rules(seq) ==
    With([i \in 1..Len(seq) |->
            1 + Cardinality({j \in 1..Len(seq) :
                  \/ KeyGreater(seq[j], seq[i])
                  \/ j < i /\ ~KeyGreater(seq[i], seq[j])})],
         LAMBDA pos :
            [k \in 1..Len(seq) |-> seq[CHOOSE i \in 1..Len(seq) : pos[i] = k]])

\* The slice [:50].
TopK == 50

\* The list without the slice: not what the script keeps.
top_untruncated(seq) == seq

top(seq) == SubSeq(seq, 1, Min(TopK, Len(seq)))

WaveCandidates == <<"waveNumber", "WaveNumber", "WAVE", "wave_id">>
SkuCandidates == <<"SKU", "reference", "Item", "sku">>

\* Whether section 10.3 mines the picking table at all.
Mines(df) ==
    /\ ~IsEmpty(df)
    /\ safe_col(df, WaveCandidates) # PyNone
    /\ safe_col(df, SkuCandidates) # PyNone

\* n, item_ct and pair_ct of section 10.3, and the keys of pair_ct in
\* insertion order.
Counts(df) ==
    With(Baskets(df, safe_col(df, WaveCandidates), safe_col(df, SkuCandidates)),
         LAMBDA baskets :
            With(pair_ct(baskets), LAMBDA pct :
                [n |-> Len(baskets), item_ct |-> item_ct(baskets), pair_ct |-> pct,
                 pairs |-> PairOrder(baskets, DOMAIN pct)]))

\* The counters when section 10.3 mines nothing.
NoCounts == [n |-> 0, item_ct |-> <<>>, pair_ct |-> <<>>, pairs |-> <<>>]

\* Section 10.3: its counters and its rules list.
copick(df) ==
    IF Mines(df)
    THEN With(Counts(df), LAMBDA c :
            With(rules_tmp(c.pairs, c.n, c.item_ct, c.pair_ct), LAMBDA tmp :
                With(sorted_rules(tmp), LAMBDA srt :
                    [counts |-> c, rules |-> top(srt)])))
    ELSE [counts |-> NoCounts, rules |-> <<>>]

\* The rules list of section 10.3.
copick_rules(df) == copick(df).rules

----------------------------------------------------------------------------
(* Optional values and dicts.                                              *)

\* An optional number: None, or the number.
None == <<>>
Some(v) == <<v>>

\* The empty dict {}, and dict.get(key, default).
EmptyDict == <<>>
Get(d, key, default) == IF key \in DOMAIN d THEN d[key] ELSE default

\* d[key] = value
Put(d, key, value) == (key :> value) @@ d

----------------------------------------------------------------------------
(* Section 4: the summary dict.                                            *)

\* The sum of the first k cells.
RECURSIVE SumCells(_, _)
SumCells(cells, k) == IF k = 0 THEN 0 ELSE cells[k].n + SumCells(cells, k - 1)

\* Series.mean() as the exact ratio <<sum, count>>.
Mean(column) == With(column, LAMBDA cells : <<SumCells(cells, Len(cells)), Len(cells)>>)

\* Series.max()
MaxCell(column) ==
    With({column[i].n : i \in 1..Len(column)}, LAMBDA ns :
        CHOOSE m \in ns : \A k \in ns : k <= m)

\* Series.nunique()
NUnique(column) ==
    With(column, LAMBDA cells : Cardinality({cells[i] : i \in 1..Len(cells)}))

Summary(picking, storage, support) ==
    [total_orders |-> IF ~IsEmpty(picking) THEN Len(picking.rows) ELSE 0,
     unique_skus |->
        IF HasCol(picking, "SKU") THEN Some(NUnique(Col(picking, "SKU"))) ELSE None,
     storage_locations |-> IF ~IsEmpty(storage) THEN Len(storage.rows) ELSE 0,
     support_points |-> IF ~IsEmpty(support) THEN Len(support.rows) ELSE 0,
     avg_pick_quantity |->
        IF HasCol(picking, "Quantity") THEN Some(Mean(Col(picking, "Quantity")))
        ELSE None,
     max_storage_capacity |->
        IF HasCol(storage, "Capacity") THEN Some(MaxCell(Col(storage, "Capacity")))
        ELSE None,
     avg_storage_utilization |->
        IF HasCol(storage, "Utilization")
        THEN Some(Mean(Col(storage, "Utilization")))
        ELSE None]

----------------------------------------------------------------------------
(* Section 5: route optimization.                                          *)

\* np.random.randint(10, 100, n) draws from RandLow .. RandHigh - 1.
RandLow == 10
RandHigh == 100

\* The cap on the rows the program takes into the selection.
MaxFacilities == 10

\* n = min(len(storage_df), 10) if not storage_df.empty else 0
facility_n(storage) ==
    IF ~IsEmpty(storage) THEN Min(Len(storage.rows), MaxFacilities) ELSE 0

RECURSIVE SumTo(_, _)
SumTo(f, k) == IF k = 0 THEN 0 ELSE f[k - 1] + SumTo(f, k - 1)

\* solver.Sum(x[i] * distances[i] for i in range(n))
Objective(x, d, n) == With([i \in 0..(n - 1) |-> x[i] * d[i]], LAMBDA t : SumTo(t, n))

\* A program without the constraint: not the one the script builds.
Feasible_unconstrained(x, n) == SumTo(x, n) >= 0

\* solver.Add(solver.Sum(x[i] for i in range(n)) >= 1)
Feasible(x, n) == SumTo(x, n) >= 1

\* solver.Solve() on the program over the BoolVars x[0..n-1], and
\* solver.Objective().Value(): the least objective over the feasible
\* assignments, which an exact solver reports with status OPTIMAL.
Solve(d, n) ==
    With({Objective(x, d, n) : x \in {y \in [0..(n - 1) -> {0, 1}] : Feasible(y, n)}},
         LAMBDA values : CHOOSE v \in values : \A w \in values : v <= w)

\* optimized_distance of section 5 when the solver runs.
optimized_distance(storage, d) ==
    IF facility_n(storage) > 0 THEN Some(Solve(d, facility_n(storage))) ELSE None

----------------------------------------------------------------------------
(* Section 6: slotting optimization.                                       *)

\* Group keys in sorted order: numbers before strings, each in its order.
CellLeq(a, b) ==
    IF a.k = "str" /\ b.k = "str" THEN StrRank(a.s) <= StrRank(b.s)
    ELSE IF a.k = "str" THEN FALSE
    ELSE IF b.k = "str" THEN TRUE
    ELSE a.n <= b.n

SortCells(keys) ==
    With([a \in keys |-> Cardinality({b \in keys : b # a /\ CellLeq(b, a)})],
         LAMBDA rank :
            [i \in 1..Cardinality(keys) |-> CHOOSE a \in keys : rank[a] = i - 1])

\* product_df.groupby("Category")["SKU"].count().reset_index(): one record
\* per category, in key order, counting the rows whose SKU is not null.
zone_assignment(df) ==
    With(<<Col(df, "Category"), Col(df, "SKU")>>, LAMBDA c :
        With(SortCells({c[1][i] : i \in {j \in 1..Len(c[1]) : c[1][j].k # "null"}}),
             LAMBDA keys :
                [g \in 1..Len(keys) |->
                    [Category |-> PyStr(keys[g]),
                     SKU |-> Cardinality({i \in 1..Len(c[1]) :
                                c[1][i] = keys[g] /\ c[2][i].k # "null"})]]))

\* The groups left in key order: not what the script does.
SortByCount_unsorted(seq) == seq

\* sort_values("SKU", ascending=False): descending by count, records with
\* equal counts keeping their order.
SortByCount(seq) ==
    With([i \in 1..Len(seq) |->
            1 + Cardinality({j \in 1..Len(seq) :
                  \/ seq[j].SKU > seq[i].SKU
                  \/ j < i /\ seq[j].SKU = seq[i].SKU})],
         LAMBDA pos :
            [k \in 1..Len(seq) |-> seq[CHOOSE i \in 1..Len(seq) : pos[i] = k]])

\* .head(5)
SlotSample == 5

slotting_result(df) ==
    IF ~IsEmpty(df) /\ HasCol(df, "Category") /\ HasCol(df, "SKU")
    THEN With(zone_assignment(df), LAMBDA zones :
            With(SortByCount(zones), LAMBDA sorted :
                SubSeq(sorted, 1, Min(SlotSample, Len(sorted)))))
    ELSE <<>>

----------------------------------------------------------------------------
(* Section 7: the report written to the local file.                        *)

Tables(picking, product, storage, support) ==
    [picking_wave |-> picking, product |-> product,
     storage |-> storage, support |-> support]

TableNames == {"picking_wave", "product", "storage", "support"}

validation_flags(sm, tables) ==
    [data_complete |-> \A t \in TableNames : ~IsEmpty(tables[t]),
     optimization_success |-> sm.optimized_distance_score # None,
     slotting_success |-> Len(sm.slotting_result_sample) > 0]

output(sm, tables) ==
    [status |-> "Success",
     data_summary |-> sm,
     validation_flags |-> validation_flags(sm, tables)]

----------------------------------------------------------------------------
(* Section 9: the enrichment.  Its random figures carry no signal and are  *)
(* left out; the two entries that read the summary are kept.               *)

Positive(opt) == opt # None /\ opt[1][1] > 0 /\ opt[1][2] > 0

enriched(doc) ==
    LET ds == Get(doc, "data_summary", EmptyDict)
        util == Get(ds, "avg_storage_utilization", None)
        score == Get(ds, "optimized_distance_score", None)
    IN  Put(Put(doc, "insights",
                [top_recommendation |->
                    IF Positive(util)
                    THEN "Reassign high-demand SKUs to nearer zones"
                    ELSE "Data incomplete - rerun check"]),
            "simulation_summary",
            [optimized_distance_score |-> IF score = None THEN 0 ELSE score[1]])

----------------------------------------------------------------------------
(* Section 10.1: data freshness of the report file.                        *)

\* drive_meta(fid): the metadata when the lookup answers, and a record
\* marked unreachable when it raises.
drive_meta(answers) ==
    IF answers THEN [id |-> "output_json"]
    ELSE [id |-> "output_json", reachable |-> PyFalse]

----------------------------------------------------------------------------
(* Section 10.2: schema fingerprints and drift.                            *)

RECURSIVE Join(_, _)
Join(strs, sep) ==
    IF strs = <<>> THEN ""
    ELSE IF Len(strs) = 1 THEN strs[1]
    ELSE strs[1] \o sep \o Join(Tail(strs), sep)

\* hashlib.md5(combo.encode()).hexdigest(): a digest, distinct for distinct
\* texts.
md5(text) == "md5(" \o text \o ")"

fingerprint(df) ==
    IF IsEmpty(df) THEN [columns |-> <<>>, hash |-> PyNone]
    ELSE [columns |-> [i \in 1..Len(df.columns) |-> df.columns[i].name],
          hash |-> md5(Join([i \in 1..Len(df.columns) |->
                               df.columns[i].name \o ":" \o df.columns[i].dtype],
                            "|"))]

schema_block(tables) == [t \in TableNames |-> fingerprint(tables[t])]

\* The previous schema: the schema_fingerprint block of the document the
\* download returns, and {} when the download raises.
prev_schema(downloads, remote) ==
    IF downloads THEN Get(remote, "schema_fingerprint", EmptyDict) ELSE EmptyDict

\* prev and cur.get("hash") != prev.get("hash"), with prev the entry of the
\* previous schema or None: a falsy prev is returned as it is.
schema_changed(cur, prev) ==
    IF prev = None THEN PyNone ELSE PyBool(cur.hash # prev.hash)

schema_drift(block, prev) ==
    [t \in TableNames |-> schema_changed(block[t], Get(prev, t, None))]

\* any(schema_drift.values())
AnyDrift(drift) == \E t \in TableNames : Truthy(drift[t])

----------------------------------------------------------------------------
(* Section 10.4: slot relocation suggestions, by their number.             *)

HotSkus == 20
NearSlots == 50

\* len(suggestions): one suggestion per hot SKU, as far as the near slots
\* reach, when the storage table has coordinates and a location column.
suggestion_count(picking, storage) ==
    LET sku_col == safe_col(picking, SkuCandidates)
        hot == IF sku_col # PyNone /\ ~IsEmpty(picking)
               THEN Min(HotSkus, NUnique(Col(picking, sku_col)))
               ELSE 0
    IN  IF /\ safe_col(storage, <<"x", "X">>) # PyNone
           /\ safe_col(storage, <<"y", "Y">>) # PyNone
           /\ safe_col(storage, <<"location", "Location", "Loc">>) # PyNone
           /\ Len(storage.rows) > 0
        THEN Min(hot, Min(NearSlots, Len(storage.rows)))
        ELSE 0

----------------------------------------------------------------------------
(* Section 10.5: automation score and triggers.                            *)

\* A score that grants the last 20 points whatever the metadata lookup
\* answered: not the script's.
automation_score_meta_ignored(rules, nsugg, drift, freshness) ==
    (IF Len(rules) > 0 THEN 30 ELSE 0)
    + (IF nsugg > 0 THEN 30 ELSE 0)
    + (IF ~AnyDrift(drift) THEN 20 ELSE 0)
    + 20
automation_score(rules, nsugg, drift, freshness) ==
    (IF Len(rules) > 0 THEN 30 ELSE 0)
    + (IF nsugg > 0 THEN 30 ELSE 0)
    + (IF ~AnyDrift(drift) THEN 20 ELSE 0)
    + (IF Truthy(Get(Get(freshness, "output_json", EmptyDict), "reachable", PyTrue))
       THEN 20 ELSE 0)

triggers(score, drift) ==
    (IF AnyDrift(drift) THEN <<"schema_drift">> ELSE <<>>)
    \o (IF score < 50 THEN <<"low_automation_value">> ELSE <<>>)

automation_intelligence(rules, nsugg, drift, freshness) ==
    With(automation_score(rules, nsugg, drift, freshness), LAMBDA score :
        [automation_score |-> score,
         n8n_triggers |-> triggers(score, drift),
         copick_rule_count |-> Len(rules),
         slot_move_count |-> nsugg])

----------------------------------------------------------------------------
(* The tables a run can download.                                          *)

PickingColumns ==
    <<[name |-> "WaveNumber", dtype |-> "int64"],
      [name |-> "SKU", dtype |-> "object"],
      [name |-> "Quantity", dtype |-> "int64"]>>

\* The rows of wave w: one per SKU of its basket, quantity 1.
WaveRows(w, items) ==
    LET skus == sorted_items(items)
    IN  [j \in 1..Len(skus) |-> <<I(w), S(skus[j]), I(1)>>]

RECURSIVE RowsFrom(_, _)
RowsFrom(w, baskets) ==
    IF baskets = <<>> THEN <<>>
    ELSE WaveRows(w, Head(baskets)) \o RowsFrom(w + 1, Tail(baskets))

\* A picking table whose waves 1, 2, ... hold the given baskets.
PickingOf(baskets) == [columns |-> PickingColumns, rows |-> RowsFrom(1, baskets)]

Copies(k, basket) == [i \in 1..k |-> basket]

\* Waves over the SKUs A, B and a third SKU C.
BasketsAB(nAB, nA, nB, nC) ==
    Copies(nAB, {"A", "B"}) \o Copies(nA, {"A"}) \o Copies(nB, {"B"})
    \o Copies(nC, {"C"})

\* The numbers of waves picking A and B, A alone, B alone and C alone.
CountsAB ==
    {r \in (0..MaxWaves) \X (0..MaxWaves) \X (0..MaxWaves) \X (0..MaxOtherWaves) :
        r[1] + r[2] + r[3] + r[4] \in 1..MaxWaves}

PickingAB(q) == PickingOf(BasketsAB(q[1], q[2], q[3], q[4]))

BigFull == {"S01", "S02", "S03", "S04", "S05", "S06", "S07", "S08", "S09", "S10", "S11"}
BigHalf == {"S01", "S02", "S03", "S04", "S05", "S06"}

\* Waves over twelve SKUs: the numbers of full baskets, half baskets and
\* single-SKU waves.
CountsBig == ((MaxBigFull - 2)..MaxBigFull) \X (0..MaxBigHalf) \X (0..MaxBigOther)

PickingBig(q) ==
    PickingOf(Copies(q[1], BigFull) \o Copies(q[2], BigHalf) \o Copies(q[3], {"S12"}))

\* A picking table with nulls, as read_csv returns it: q[1] waves of two
\* rows, the first picking A and the second picking B or holding no SKU;
\* q[2] waves picking C alone; and q[3] rows picking B that hold no wave
\* number.  A numeric column that holds a null is read as float64.
CountsNull ==
    (0..MaxNullWaves) \X (0..MaxNullOther) \X (0..MaxNullRows) \X {"null", "B"}

PickingNull(q) ==
    [columns |->
        <<[name |-> "WaveNumber", dtype |-> IF q[3] > 0 THEN "float64" ELSE "int64"],
          PickingColumns[2], PickingColumns[3]>>,
     rows |->
        [r \in 1..(2 * q[1] + q[2] + q[3]) |->
            IF r <= 2 * q[1]
            THEN <<I((r + 1) \div 2),
                   IF r % 2 = 1 THEN S("A") ELSE IF q[4] = "null" THEN Null ELSE S("B"),
                   I(1)>>
            ELSE IF r <= 2 * q[1] + q[2]
            THEN <<I(r - q[1]), S("C"), I(1)>>
            ELSE <<Null, S("B"), I(1)>>]]

\* Six waves picking A and B together and one other wave.
PickingRich == PickingOf(BasketsAB(6, 0, 0, 1))

\* The same rows with the first two columns exchanged.
Reordered(df) ==
    [columns |-> <<df.columns[2], df.columns[1]>> \o Tail(Tail(df.columns)),
     rows |-> [r \in 1..Len(df.rows) |->
                 <<df.rows[r][2], df.rows[r][1]>> \o Tail(Tail(df.rows[r]))]]

ProductSmall ==
    [columns |-> <<[name |-> "SKU", dtype |-> "object"],
                   [name |-> "Category", dtype |-> "object"]>>,
     rows |-> <<<<S("A"), S("X")>>, <<S("B"), S("X")>>, <<S("C"), S("Y")>>>>]

StorageColumns ==
    <<[name |-> "location", dtype |-> "object"],
      [name |-> "x", dtype |-> "int64"],
      [name |-> "y", dtype |-> "int64"],
      [name |-> "Capacity", dtype |-> "int64"],
      [name |-> "Utilization", dtype |-> "int64"]>>

\* A storage table of k slots along a line.
StorageOf(k) ==
    [columns |-> StorageColumns,
     rows |-> [i \in 1..k |-> <<S("X"), I(i), I(0), I(100), I(50)>>]]

\* The categories of the product tables that vary, in the order their rows
\* come in the table; the rows after them have no category.
SlotCategories == <<"Z", "Y", "X", "C", "B", "A">>

ProductColumns ==
    <<[name |-> "SKU", dtype |-> "object"], [name |-> "Category", dtype |-> "object"]>>

\* counts[i] rows for each category i, then counts[Len + 1] rows whose
\* category is null.
RECURSIVE ProductRows(_, _)
ProductRows(counts, i) ==
    IF i = 0 THEN <<>>
    ELSE ProductRows(counts, i - 1)
         \o Copies(counts[i],
                   <<S("A"), IF i <= Len(SlotCategories) THEN S(SlotCategories[i])
                             ELSE Null>>)

\* The product table with these rows, whole or without one of its columns.
ProductOf(kind, counts) ==
    With(ProductRows(counts, Len(SlotCategories) + 1), LAMBDA rws :
        IF kind = "noCategory"
        THEN [columns |-> <<ProductColumns[1]>>,
              rows |-> [r \in 1..Len(rws) |-> <<rws[r][1]>>]]
        ELSE IF kind = "noSKU"
        THEN [columns |-> <<ProductColumns[2]>>,
              rows |-> [r \in 1..Len(rws) |-> <<rws[r][2]>>]]
        ELSE [columns |-> ProductColumns, rows |-> rws])

SupportSmall ==
    [columns |-> <<[name |-> "PointID", dtype |-> "int64"]>>,
     rows |-> <<<<I(1)>>>>]

----------------------------------------------------------------------------
(* How the outside world answers during one run.                           *)

\* The stages that can raise.
EarlyStages == {"summary", "route", "slotting"}
Section10Stages == <<"fingerprint", "copick", "relocation", "scoring">>

\* The place of a stage in section 10; a stage outside it comes after all.
StageIndex(st) ==
    IF \E i \in 1..Len(Section10Stages) : Section10Stages[i] = st
    THEN CHOOSE i \in 1..Len(Section10Stages) : Section10Stages[i] = st
    ELSE Len(Section10Stages) + 1

\* The weights np.random.randint hands out, by position.
FlatRng == [i \in 0..(MaxFacilities - 1) |-> RandLow + i]

\* Every Drive call answers and no stage raises.
AllOk ==
    [fault |-> "none", upload8 |-> TRUE, upload9 |-> TRUE, meta |-> TRUE,
     download |-> TRUE, upload10 |-> TRUE, rng |-> FlatRng]

\* One stage raises, or one Drive call raises, or Drive refuses every write,
\* or Drive cannot be reached at all.
Envs ==
    {AllOk}
    \cup {[AllOk EXCEPT !.fault = st] :
            st \in EarlyStages \cup {Section10Stages[i] : i \in 1..Len(Section10Stages)}}
    \cup {[AllOk EXCEPT !.upload8 = FALSE], [AllOk EXCEPT !.upload9 = FALSE],
          [AllOk EXCEPT !.meta = FALSE], [AllOk EXCEPT !.download = FALSE],
          [AllOk EXCEPT !.upload10 = FALSE]}
    \cup {[AllOk EXCEPT !.upload8 = FALSE, !.upload9 = FALSE, !.upload10 = FALSE]}
    \cup {[AllOk EXCEPT !.upload8 = FALSE, !.upload9 = FALSE, !.upload10 = FALSE,
                        !.meta = FALSE, !.download = FALSE]}

\* The weight vectors tried on a storage table of n rows taken into the
\* selection: every vector over three weights while n is small, and beyond
\* that the constant vectors and the vectors with one lighter row.
Weights == {RandLow, RandLow + 1, RandHigh - 1}

Extend(v, n) == [i \in 0..(MaxFacilities - 1) |-> IF i < n THEN v[i] ELSE RandLow]

RngsFor(n) ==
    IF n <= MaxFullCostRows
    THEN {Extend(v, n) : v \in [0..(n - 1) -> Weights]}
    ELSE {Extend([i \in 0..(n - 1) |-> IF i = p[1] THEN p[2] ELSE p[3]], n) :
            p \in {q \in (0..(n - 1)) \X Weights \X Weights : q[2] <= q[3]}}

Input(picking, product, storage, support, e) ==
    [picking |-> picking, product |-> product, storage |-> storage,
     support |-> support, env |-> e]

\* Runs with small tables under every environment.
RunInputs ==
    {Input(p, ProductSmall, s, SupportSmall, e) :
        p \in {EmptyDF, PickingRich, Reordered(PickingRich)},
        s \in {EmptyDF, StorageOf(2)},
        e \in Envs}

\* Runs that vary the picking table, by the counts the table is built from.
MineKeys == ({"AB"} \X CountsAB) \cup ({"Big"} \X CountsBig)

\* Runs that vary the product table: every number of rows per category for
\* the whole table, and the same number for each category for the tables
\* that lack a column.
ProductCounts == [1..(Len(SlotCategories) + 1) -> 0..MaxPerCategory]

ProductKeys ==
    {"Product"} \X
        (({"both"} \X ProductCounts)
         \cup ({"noCategory", "noSKU"} \X
                   {[i \in 1..(Len(SlotCategories) + 1) |-> n] : n \in 0..MaxPerCategory}))

\* The tables and the environment a key stands for: a picking or product
\* table built from counts, or the input given with the key.
InputOf(k) ==
    IF k[1] = "Null"
    THEN Input(PickingNull(k[2]), ProductSmall, StorageOf(2), SupportSmall, AllOk)
    ELSE IF k[1] = "Product"
    THEN Input(PickingRich, ProductOf(k[2][1], k[2][2]), StorageOf(2), SupportSmall,
               AllOk)
    ELSE IF k[1] = "AB"
    THEN Input(PickingAB(k[2]), ProductSmall, StorageOf(2), SupportSmall, AllOk)
    ELSE IF k[1] = "Big"
    THEN Input(PickingBig(k[2]), ProductSmall, StorageOf(2), SupportSmall, AllOk)
    ELSE k[2]

\* Runs that vary the storage table and the weights drawn for it.
FacilityInputs ==
    {Input(PickingRich, ProductSmall, IF q[1] = 0 THEN EmptyDF ELSE StorageOf(q[1]),
           SupportSmall, [AllOk EXCEPT !.rng = q[2]]) :
        q \in UNION {{<<k, v>> : v \in RngsFor(Min(k, MaxFacilities))} :
                        k \in 0..MaxStorageRows}}

----------------------------------------------------------------------------
(* The script, section by section.                                         *)

NoFile == <<>>

AdvInit ==
    [computed |-> {}, data_freshness |-> EmptyDict, schema_block |-> EmptyDict,
     prev_schema |-> EmptyDict, schema_drift |-> EmptyDict, counts |-> NoCounts, rules |-> <<>>, suggestions |-> 0,
     automation |-> EmptyDict, stored |-> EmptyDict]

Init ==
    /\ pc = "download"
    /\ run = 1
    /\ env = AllOk
    /\ picking_df = EmptyDF
    /\ product_df = EmptyDF
    /\ storage_df = EmptyDF
    /\ support_df = EmptyDF
    /\ summary = EmptyDict
    /\ distances = <<>>
    /\ output_json = NoFile
    /\ drive_doc = EmptyDict
    /\ adv = AdvInit
    /\ persisted = EmptyDict
    /\ raw_picking_df = EmptyDF

\* Section 3: read_drive_csv of the four tables (an empty table when a
\* download fails).
Download(keys) ==
    /\ pc = "download"
    /\ \E k \in keys : \E inp \in {InputOf(k)} :
        /\ picking_df' = inp.picking
        /\ raw_picking_df' = inp.picking
        /\ product_df' = inp.product
        /\ storage_df' = inp.storage
        /\ support_df' = inp.support
        /\ env' = inp.env
    /\ pc' = "summary"
    /\ UNCHANGED <<run, summary, distances, output_json, drive_doc, adv, persisted>>

\* Section 4: fillna(0) on the non-empty tables, then the summary dict, which
\* no try block guards.
CleanAndSummarize ==
    /\ pc = "summary"
    /\ picking_df' = fillna(picking_df)
    /\ product_df' = fillna(product_df)
    /\ storage_df' = fillna(storage_df)
    /\ support_df' = fillna(support_df)
    /\ IF env.fault = "summary"
       THEN pc' = "crashed" /\ UNCHANGED summary
       ELSE /\ summary' = Summary(picking_df', storage_df', support_df')
            /\ pc' = "route"
    /\ UNCHANGED <<run, env, distances, output_json, drive_doc, adv, persisted,
                   raw_picking_df>>

\* Section 5: the facility selection inside its try block.
RouteOptimization ==
    /\ pc = "route"
    /\ IF env.fault = "route"
       THEN /\ summary' = Put(summary, "optimized_distance_score", None)
            /\ UNCHANGED distances
       ELSE \E d \in {[i \in 0..(facility_n(storage_df) - 1) |-> env.rng[i]]} :
                /\ distances' = IF facility_n(storage_df) > 0 THEN d ELSE distances
                /\ summary' = Put(summary, "optimized_distance_score",
                                  optimized_distance(storage_df, d))
    /\ pc' = "slotting"
    /\ UNCHANGED <<run, env, picking_df, product_df, storage_df, support_df,
                   output_json, drive_doc, adv, persisted,
                   raw_picking_df>>

\* Section 6: the slotting sample inside its try block.
SlottingOptimization ==
    /\ pc = "slotting"
    /\ summary' = Put(summary, "slotting_result_sample",
                      IF env.fault = "slotting" THEN <<>>
                      ELSE slotting_result(product_df))
    /\ pc' = "write"
    /\ UNCHANGED <<run, env, picking_df, product_df, storage_df, support_df,
                   distances, output_json, drive_doc, adv, persisted,
                   raw_picking_df>>

\* Section 7: the report is written to the local file.
WriteJson ==
    /\ pc = "write"
    /\ output_json' = output(summary, Tables(picking_df, product_df, storage_df,
                                             support_df))
    /\ pc' = "upload"
    /\ UNCHANGED <<run, env, picking_df, product_df, storage_df, support_df,
                   summary, distances, drive_doc, adv, persisted,
                   raw_picking_df>>

\* Section 8: the local file replaces the remote one, unless Drive raises.
UpdateDrive ==
    /\ pc = "upload"
    /\ drive_doc' = IF env.upload8 THEN output_json ELSE drive_doc
    /\ pc' = "enhance"
    /\ UNCHANGED <<run, env, picking_df, product_df, storage_df, support_df,
                   summary, distances, output_json, adv, persisted,
                   raw_picking_df>>

\* Section 9: the enriched report is written locally and then uploaded.
Enhance ==
    /\ pc = "enhance"
    /\ output_json' = enriched(output_json)
    /\ drive_doc' = IF env.upload9 THEN enriched(output_json) ELSE drive_doc
    /\ pc' = "advanced"
    /\ UNCHANGED <<run, env, picking_df, product_df, storage_df, support_df,
                   summary, distances, adv, persisted,
                   raw_picking_df>>

\* Section 10: one try block around 10.1 to 10.6.  A stage that raises ends
\* the block: what was computed before it stays in memory, and neither the
\* local file nor the remote one is written.
Advanced ==
    /\ pc = "advanced"
    /\ \E raises \in {env.fault \in {Section10Stages[i] : i \in 1..Len(Section10Stages)}},
          data_freshness \in {[output_json |-> drive_meta(env.meta)]},
          block \in {schema_block(Tables(picking_df, product_df, storage_df, support_df))} :
       \E reach \in {[i \in 1..Len(Section10Stages) |->
                        ~raises \/ i <= StageIndex(env.fault)]},
          prev \in {prev_schema(env.download, drive_doc)} :
       \E drift \in {schema_drift(block, prev)} :
       \E mined \in {IF reach[StageIndex("copick")] /\ env.fault # "copick"
                     THEN copick(picking_df) ELSE copick(EmptyDF)},
          nsugg \in {suggestion_count(picking_df, storage_df)} :
       \E rules \in {mined.rules} :
       \E auto \in {automation_intelligence(rules, nsugg, drift, data_freshness)} :
       \E final \in {Put(Put(Put(Put(Put(Put(output_json,
                        "data_freshness", data_freshness),
                        "schema_fingerprint", block),
                        "schema_drift", drift),
                        "copick_rules", rules),
                        "slotting_recommendations", nsugg),
                        "automation_intelligence", auto)} :
          /\ adv' =
                [computed |-> {"freshness"} \cup
                              {Section10Stages[i] : i \in
                                  {j \in 1..Len(Section10Stages) :
                                      reach[j] /\ env.fault # Section10Stages[j]}},
                 data_freshness |-> data_freshness,
                 schema_block |-> IF env.fault # "fingerprint" THEN block ELSE EmptyDict,
                 prev_schema |-> IF env.fault # "fingerprint" THEN prev ELSE EmptyDict,
                 schema_drift |-> IF env.fault # "fingerprint" THEN drift ELSE EmptyDict,
                 counts |-> mined.counts,
                 rules |-> rules,
                 suggestions |->
                    IF reach[StageIndex("relocation")] /\ env.fault # "relocation"
                    THEN nsugg ELSE 0,
                 automation |-> IF ~raises THEN auto ELSE EmptyDict,
                 stored |-> IF ~raises /\ env.upload10 THEN block ELSE EmptyDict]
          /\ output_json' = IF raises THEN output_json ELSE final
          /\ drive_doc' = IF ~raises /\ env.upload10 THEN final ELSE drive_doc
    /\ pc' = "done"
    /\ UNCHANGED <<run, env, picking_df, product_df, storage_df, support_df,
                   summary, distances, persisted,
                   raw_picking_df>>

\* The scheduler starts the script again; only the remote file carries over.
NextRun ==
    /\ pc \in {"done", "crashed"}
    /\ run < MaxRuns
    /\ run' = run + 1
    /\ pc' = "download"
    /\ persisted' = adv.stored
    /\ env' = AllOk
    /\ picking_df' = EmptyDF
    /\ raw_picking_df' = EmptyDF
    /\ product_df' = EmptyDF
    /\ storage_df' = EmptyDF
    /\ support_df' = EmptyDF
    /\ summary' = EmptyDict
    /\ distances' = <<>>
    /\ output_json' = NoFile
    /\ adv' = AdvInit
    /\ UNCHANGED drive_doc

Pipeline ==
    \/ CleanAndSummarize
    \/ RouteOptimization
    \/ SlottingOptimization
    \/ WriteJson
    \/ UpdateDrive
    \/ Enhance
    \/ Advanced

Next == Download({"Run"} \X RunInputs) \/ Pipeline \/ NextRun

Spec == Init /\ [][Next]_vars

NextMine == Download(MineKeys) \/ Pipeline

SpecMine == Init /\ [][NextMine]_vars

NextFacility == Download({"Facility"} \X FacilityInputs) \/ Pipeline

SpecFacility == Init /\ [][NextFacility]_vars

NextSlot == Download(ProductKeys) \/ Pipeline

SpecSlot == Init /\ [][NextSlot]_vars

NextNull == Download({"Null"} \X CountsNull) \/ Pipeline

SpecNull == Init /\ [][NextNull]_vars

----------------------------------------------------------------------------
(* Schema drift across runs, fault isolation and the automation score,     *)
(* under Spec.                                                             *)

\* Every Drive call of the run answers and no stage raises.
DriveAnswers ==
    /\ env.fault = "none"
    /\ env.upload8 /\ env.upload9 /\ env.meta /\ env.download /\ env.upload10

\* C1: over runs against the same remote document in which every Drive call
\* answers, the drift flag of each table in run k+1 is true exactly when the
\* hash computed in run k+1 differs from the hash run k persisted in the
\* document's schema_fingerprint block.
C1_DriftFollowsPersistedHash ==
    (pc = "done" /\ run > 1 /\ persisted # EmptyDict /\ DriveAnswers)
    => \A t \in TableNames :
          Truthy(adv.schema_drift[t])
          <=> adv.schema_block[t].hash # persisted[t].hash

\* The blocks each stage writes: into data_summary, or into the document.
SummaryBlocks == {"optimized_distance_score", "slotting_result_sample"}

StageBlocks ==
    [summary |-> {},
     route |-> {"optimized_distance_score"},
     slotting |-> {"slotting_result_sample"},
     fingerprint |-> {"schema_fingerprint", "schema_drift"},
     copick |-> {"copick_rules"},
     relocation |-> {},
     scoring |-> {"automation_intelligence"}]

\* The block is in the local output document.
Written(block) ==
    /\ output_json # NoFile
    /\ IF block \in SummaryBlocks
       THEN block \in DOMAIN output_json.data_summary
       ELSE block \in DOMAIN output_json

\* The block is absent from the output document or holds nothing.
EmptyOrAbsent(block) ==
    IF Written(block) /\ block \in SummaryBlocks
    THEN output_json.data_summary[block] = <<>>
    ELSE ~Written(block)

\* C2: when one stage alone raises, the run still reaches its end, the
\* output document holds the block of every other stage, and the block of the
\* stage that raised is empty or absent.
C2_StagesFaultIsolated ==
    (env.fault # "none")
    => /\ pc # "crashed"
       /\ pc = "done"
          => /\ \A st \in DOMAIN StageBlocks \ {env.fault} :
                   \A b \in StageBlocks[st] : Written(b)
             /\ \A b \in StageBlocks[env.fault] : EmptyOrAbsent(b)

\* C3: a table is flagged changed exactly when the current fingerprint and
\* the previous document's entry both exist with a hash and the two hashes
\* differ; with the current table empty or the previous entry missing the
\* flag is not set.
C3_ChangedIffBothHashesDiffer ==
    (pc = "done" /\ "fingerprint" \in adv.computed)
    => \A t \in TableNames :
          Truthy(adv.schema_drift[t])
          <=> /\ t \in DOMAIN adv.prev_schema
              /\ adv.schema_block[t].hash # PyNone
              /\ adv.prev_schema[t].hash # PyNone
              /\ adv.schema_block[t].hash # adv.prev_schema[t].hash

\* 30 for a rule, 30 for a suggestion and 20 for no drift: the score before
\* the reachability bonus.
ScoreWithoutBonus ==
    (IF Len(adv.rules) > 0 THEN 30 ELSE 0)
    + (IF adv.suggestions > 0 THEN 30 ELSE 0)
    + (IF \A t \in TableNames : ~Truthy(adv.schema_drift[t]) THEN 20 ELSE 0)

\* C4: whenever the download of step 10.2 raises, no drift flag is set, the
\* run reaches its end and the automation score is without the 20 points
\* for reachability.
C4_FailedDownloadWithholdsBonus ==
    (pc = "done" /\ env.fault = "none" /\ ~env.download)
    => /\ "scoring" \in adv.computed
       /\ \A t \in TableNames : ~Truthy(adv.schema_drift[t])
       /\ adv.automation.automation_score = ScoreWithoutBonus

----------------------------------------------------------------------------
(* The co-pick rules, under SpecMine.  The counts are taken from the rows  *)
(* of the picking table, apart from the miner's own counters.              *)

\* The waves of the picking table that pick every SKU of the set.
WavesPicking(skus) ==
    With(<<Col(picking_df, "WaveNumber"), Col(picking_df, "SKU")>>, LAMBDA c :
        {w \in {c[1][i] : i \in 1..Len(c[1])} :
            \A a \in skus : \E i \in 1..Len(c[1]) : c[1][i] = w /\ c[2][i] = S(a)})

basketTotal == Cardinality(WavesPicking({}))
ItemCount(a) == Cardinality(WavesPicking({a}))
PairCount(a, b) == Cardinality(WavesPicking({a, b}))

\* The mining of the run is over.
Mined == pc = "done" /\ "copick" \in adv.computed

\* The rule a -> b is among the emitted rules.
Emitted(a, b) ==
    \E i \in 1..Len(adv.rules) :
        adv.rules[i].antecedent = a /\ adv.rules[i].consequent = b

\* Scenario B: 20 waves, 15 of them picking A, 10 picking B, 8 picking both.
ScenarioB ==
    /\ Mined
    /\ basketTotal = 20
    /\ ItemCount("A") = 15
    /\ ItemCount("B") = 10
    /\ PairCount("A", "B") = 8

\* C6 as the specification states it: in Scenario B the rule A -> B is
\* emitted with support 0.40 and confidence 0.533 (fields in thousandths).
C6_ScenarioB_RuleRetained ==
    ScenarioB
    => \E i \in 1..Len(adv.rules) :
          /\ adv.rules[i].antecedent = "A"
          /\ adv.rules[i].consequent = "B"
          /\ adv.rules[i].support = 400
          /\ adv.rules[i].confidence = 533

\* C6: in Scenario B the rule A -> B is not emitted.  Its count 8 is above
\* 5 and its confidence 8/15 is above 0.05, but its lift (8*20)/(15*10) is
\* not above 1.1.
C6_ScenarioB_RuleDropped ==
    ScenarioB
    => /\ ~Emitted("A", "B")
       /\ PairCount("A", "B") > 5
       /\ 20 * PairCount("A", "B") > ItemCount("A")
       /\ 10 * PairCount("A", "B") * basketTotal <= 11 * ItemCount("A") * ItemCount("B")

\* Scenario B was mined and no rule came out of it.
C6_ScenarioB_Mined == ScenarioB /\ adv.rules = <<>>

\* C7 as the specification states it: every emitted rule has, on its own
\* recorded fields, count > 5, confidence > 0.05 and lift > 1.1, and an
\* antecedent other than its consequent.
C7_RecordedFieldsAboveThresholds ==
    Mined
    => \A i \in 1..Len(adv.rules) :
          /\ adv.rules[i].count > 5
          /\ adv.rules[i].confidence > 50
          /\ adv.rules[i].lift > 1100
          /\ adv.rules[i].antecedent # adv.rules[i].consequent

\* C7: every emitted rule has count > 5 and an antecedent other than its
\* consequent; its confidence and lift before rounding are above 0.05 and
\* 1.1, and the recorded ones, rounded to three decimals, are at least 0.05
\* and 1.1.
C7_ThresholdsBeforeRounding ==
    Mined
    => \A i \in 1..Len(adv.rules) :
          \E r \in {adv.rules[i]} :
          \E ia \in {ItemCount(r.antecedent)}, ib \in {ItemCount(r.consequent)} :
             /\ r.count > 5
             /\ r.antecedent # r.consequent
             /\ 20 * r.count > ia
             /\ 10 * r.count * basketTotal > 11 * ia * ib
             /\ r.confidence >= 50
             /\ r.lift >= 1100

\* A rule was emitted whose recorded lift is 1.1.
C7_RecordedLiftOnThreshold ==
    /\ Mined
    /\ \E i \in 1..Len(adv.rules) : adv.rules[i].lift = 1100

\* C8 as the specification states it: the confidence field is count /
\* ItemCount[antecedent] and the support field is PairCount / basketTotal,
\* exactly (fields in thousandths).
C8_FieldsAreExactRatios ==
    Mined
    => \A i \in 1..Len(adv.rules) :
          \E r \in {adv.rules[i]} :
             /\ r.confidence * ItemCount(r.antecedent) = 1000 * r.count
             /\ r.support * basketTotal = 1000 * PairCount(r.antecedent, r.consequent)

\* k thousandths is num / den rounded to three decimals.
RoundedTo3(k, num, den) ==
    /\ 2 * (1000 * num - k * den) <= den
    /\ 2 * (k * den - 1000 * num) <= den

\* C8: the count field is PairCount, the confidence field is count /
\* ItemCount[antecedent] rounded to three decimals, and the support field is
\* PairCount / basketTotal rounded to three decimals.
C8_FieldsAreRoundedRatios ==
    Mined
    => \A i \in 1..Len(adv.rules) :
          \E r \in {adv.rules[i]} :
             /\ r.count = PairCount(r.antecedent, r.consequent)
             /\ RoundedTo3(r.confidence, r.count, ItemCount(r.antecedent))
             /\ RoundedTo3(r.support, r.count, basketTotal)

\* A rule was emitted whose confidence and support are not whole
\* thousandths before rounding.
C8_RoundingActed ==
    /\ Mined
    /\ \E i \in 1..Len(adv.rules) :
          /\ adv.rules[i].confidence * ItemCount(adv.rules[i].antecedent)
                # 1000 * adv.rules[i].count
          /\ adv.rules[i].support * basketTotal # 1000 * adv.rules[i].count

\* The SKUs of the picking table, as strings.
SkusPicked ==
    With(Col(picking_df, "SKU"), LAMBDA c : {PyStr(c[i]) : i \in 1..Len(c)})

\* Every pair that clears the thresholds, its smaller SKU first, with the
\* key it is ranked by: the recorded lift and the count.
Cleared ==
    With(basketTotal, LAMBDA n :
        With([a \in SkusPicked |-> ItemCount(a)], LAMBDA ic :
            {[antecedent |-> p[1], consequent |-> p[2],
              lift |-> lift_round3(p[3], n, ic[p[1]], ic[p[2]]), count |-> p[3]] :
                p \in {q \in {<<a, b, PairCount(a, b)>> : a, b \in SkusPicked} :
                          /\ StrRank(q[1]) < StrRank(q[2])
                          /\ q[3] > 5
                          /\ 20 * q[3] > ic[q[1]]
                          /\ 10 * q[3] * n > 11 * ic[q[1]] * ic[q[2]]}}))

\* The emitted rules, by the same four fields.
EmittedKeys ==
    {[antecedent |-> adv.rules[i].antecedent, consequent |-> adv.rules[i].consequent,
      lift |-> adv.rules[i].lift, count |-> adv.rules[i].count] :
        i \in 1..Len(adv.rules)}

\* C10: copick_rules has at most 50 entries; of two consecutive entries the
\* first has the greater lift, or the same lift and a count at least as
\* great; and the entries are the 50 highest-ranked of the rules that
\* cleared the thresholds: all of them when they are 50 or fewer, otherwise
\* 50 of them, none ranked below a rule left out.
C10_Top50Sorted ==
    Mined
    => \E rules \in {adv.rules}, cleared \in {Cleared}, emitted \in {EmittedKeys} :
          /\ Len(rules) <= 50
          /\ \A i \in 1..(Len(rules) - 1) :
                \/ rules[i].lift > rules[i + 1].lift
                \/ /\ rules[i].lift = rules[i + 1].lift
                   /\ rules[i].count >= rules[i + 1].count
          /\ emitted \subseteq cleared
          /\ Cardinality(emitted) = Len(rules)
          /\ Len(rules) = Min(50, Cardinality(cleared))
          /\ \A out \in cleared \ emitted : \A in \in emitted :
                \/ in.lift > out.lift
                \/ in.lift = out.lift /\ in.count >= out.count

\* More than 50 rules cleared the thresholds, with different lifts, and 50
\* were emitted.
C10_Truncated ==
    /\ Mined
    /\ Len(adv.rules) = 50
    /\ Cardinality(Cleared) > 50
    /\ adv.rules[1].lift > adv.rules[50].lift

----------------------------------------------------------------------------
(* The facility selection, under SpecFacility.                             *)

RECURSIVE SummedCost(_, _)
SummedCost(cost, rows) ==
    IF rows = {} THEN 0
    ELSE LET i == CHOOSE j \in rows : TRUE
         IN  cost[i] + SummedCost(cost, rows \ {i})

\* The least summed cost over the non-empty subsets of the first
\* min(N, 10) rows.
LeastSubsetCost ==
    With({SummedCost(env.rng, rows) :
             rows \in SUBSET (0..(Min(Len(storage_df.rows), 10) - 1)) \ {{}}},
         LAMBDA sums : CHOOSE v \in sums : \A w \in sums : v <= w)

\* C9: for a storage table of N > 0 rows, optimized_distance_score is the
\* least summed cost over the non-empty subsets of the first min(N, 10)
\* rows; for an empty storage table the score is absent and the run goes
\* on; optimization_success is true exactly when the score is present.
C9_FacilitySelection ==
    (pc = "done")
    => /\ IF Len(storage_df.rows) > 0
          THEN output_json.data_summary.optimized_distance_score
                  = Some(LeastSubsetCost)
          ELSE output_json.data_summary.optimized_distance_score = None
       /\ output_json.validation_flags.optimization_success
          <=> output_json.data_summary.optimized_distance_score # None

\* A storage table of more than ten rows was scored, the cheapest of the
\* first ten rows not being the first.
C9_ScoredBeyondTenRows ==
    /\ pc = "done"
    /\ Len(storage_df.rows) > 10
    /\ output_json.data_summary.optimized_distance_score # None
    /\ output_json.data_summary.optimized_distance_score[1] < env.rng[0]

----------------------------------------------------------------------------
(* The slotting sample, under SpecSlot.                                    *)

\* The categories of the product table as the slotting stage receives it,
\* as strings, and the number of rows in a category.
CategoriesOf(df) ==
    With(Col(df, "Category"), LAMBDA c : {PyStr(c[i]) : i \in 1..Len(c)})

RowsInCategory(df, cat) ==
    With(Col(df, "Category"), LAMBDA c :
        Cardinality({i \in 1..Len(c) : PyStr(c[i]) = cat}))

\* C11: for a product table with a Category and a SKU column and at least
\* one row, slotting_result_sample holds at most 5 (category, count) pairs,
\* each count the number of product rows in that category, ordered
\* non-increasing by count, and no category left out has a count greater
\* than one in the sample; for a table without one of the columns or without
\* rows the sample is empty, the run goes on and slotting_success is false.
C11_SlottingSample ==
    (pc = "done")
    => \E sample \in {output_json.data_summary.slotting_result_sample} :
          IF HasCol(product_df, "Category") /\ HasCol(product_df, "SKU")
             /\ Len(product_df.rows) > 0
          THEN /\ Len(sample) <= 5
               /\ \A i \in 1..Len(sample) :
                     sample[i].SKU = RowsInCategory(product_df, sample[i].Category)
               /\ \A i, j \in 1..Len(sample) :
                     i < j => /\ sample[i].SKU >= sample[j].SKU
                              /\ sample[i].Category # sample[j].Category
               /\ \A cat \in CategoriesOf(product_df)
                                \ {sample[i].Category : i \in 1..Len(sample)} :
                     \A i \in 1..Len(sample) :
                        RowsInCategory(product_df, cat) <= sample[i].SKU
          ELSE /\ sample = <<>>
               /\ ~output_json.validation_flags.slotting_success

\* A product table of more than five categories with different numbers of
\* rows was sampled: five pairs, and a category left out.
C11_SampledBeyondFive ==
    /\ pc = "done"
    /\ HasCol(product_df, "Category") /\ HasCol(product_df, "SKU")
    /\ Cardinality(CategoriesOf(product_df)) > 5
    /\ Len(output_json.data_summary.slotting_result_sample) = 5
    /\ output_json.data_summary.slotting_result_sample[1].SKU
          > output_json.data_summary.slotting_result_sample[5].SKU
    /\ output_json.validation_flags.slotting_success

----------------------------------------------------------------------------
(* Rows with nulls in the picking table, under SpecNull.                   *)

\* The (wave, SKU) pairs of the rows of the downloaded picking table in
\* which neither the wave number nor the SKU is null.
RawKept ==
    IF IsEmpty(raw_picking_df) THEN {}
    ELSE With(<<Col(raw_picking_df, "WaveNumber"), Col(raw_picking_df, "SKU")>>,
              LAMBDA c :
                {<<c[1][i], PyStr(c[2][i])>> :
                    i \in {j \in 1..Len(c[1]) :
                              c[1][j].k # "null" /\ c[2][j].k # "null"}})

\* The waves among those rows that pick every SKU of the set.
RawWaves(kept, skus) ==
    {w \in {p[1] : p \in kept} : \A a \in skus : <<w, a>> \in kept}

\* C12: after the cleaning of step 4 and the mining of step 10.3, the
\* baskets come only from the rows of the downloaded picking table whose
\* wave number and SKU are both non-null: the number of baskets, ItemCount,
\* PairCount and the SKUs of the rules are those of these rows alone.
C12_NullRowsFeedNoBasket ==
    Mined
    => \E kept \in {RawKept}, c \in {adv.counts} :
          /\ c.n = Cardinality(RawWaves(kept, {}))
          /\ DOMAIN c.item_ct = {p[2] : p \in kept}
          /\ \A a \in DOMAIN c.item_ct :
                c.item_ct[a] = Cardinality(RawWaves(kept, {a}))
          /\ \A pr \in DOMAIN c.pair_ct :
                c.pair_ct[pr] = Cardinality(RawWaves(kept, {pr[1], pr[2]}))
          /\ \A i \in 1..Len(adv.rules) :
                /\ adv.rules[i].antecedent \in {p[2] : p \in kept}
                /\ adv.rules[i].consequent \in {p[2] : p \in kept}

====
